---------------------------- MODULE Spec2Model ----------------------------
(***************************************************************************)
(* LeadLens: the lead scorer and classifier and the jobs of main (run.py),  *)
(* the URL helpers of the scraper and the website of a scraped card        *)
(* (scraper/maps_scraper.py).                                              *)
(*                                                                         *)
(* Text is a sequence of one-character strings, so that lower(), strip(),  *)
(* "in", startswith() and endswith() are computed character by character.  *)
(* The en dash U+2013 of the reason and category labels is the one         *)
(* character written EnDash.                                               *)
(*                                                                         *)
(* Numbers: a rating is held in hundredths (4.19 is 419); reviews and      *)
(* photos are whole numbers; the running score of _compute_lead_score is   *)
(* held in hundredths of a point.  With these inputs the exact sum is      *)
(* never half way between two integers (4*rating + 20*reviews is a         *)
(* multiple of 4, 50 is not), so the float sum of the code rounds to the   *)
(* same integer as the exact sum.                                          *)
(***************************************************************************)
EXTENDS Integers, Sequences, FiniteSets, TLC

VARIABLES
    WEBCHECK_AVAILABLE,  \* run.py:14-19, set once when the module is imported
    prober,              \* what the module name quick_site_check is bound to
    call,                \* the last call made: operation and arguments
    scored,              \* outcome of the last _compute_lead_score
    classified,          \* outcome of the last classify_lead
    site,                \* outcome of the last quick_site_check called directly
    href_ok,             \* outcome of the last _valid_website_href
    resolved,            \* outcome of the last extract_website_from_google_redirect
    card,                \* the last result card scraped: its page and its record
    ran                  \* the last job of the configuration: its expansion and searches

vars ==
    <<WEBCHECK_AVAILABLE, prober, call, scored, classified, site, href_ok,
      resolved, card, ran>>

---------------------------------------------------------------------------
(* Text *)

EnDash == "u2013"

UpperLetters == <<"A", "B", "C", "D", "E", "F", "G", "H", "I", "J", "K", "L", "M", "N", "O", "P", "Q", "R", "S", "T", "U", "V", "W", "X", "Y", "Z">>

LowerLetters == <<"a", "b", "c", "d", "e", "f", "g", "h", "i", "j", "k", "l", "m", "n", "o", "p", "q", "r", "s", "t", "u", "v", "w", "x", "y", "z">>

Digits == <<"0", "1", "2", "3", "4", "5", "6", "7", "8", "9">>

Whitespace == {" ", "\t", "\n", "\r"}

\* The characters of the texts of the model
Alphabet ==
    {UpperLetters[i] : i \in 1..26} \cup {LowerLetters[i] : i \in 1..26}
    \cup {Digits[i] : i \in 1..10} \cup Whitespace
    \cup {EnDash, ":", "/", ".", "?", "#", "=", "-", "+", "(", ")", "'", "@", "[", "]", "_", "%", "&"}

LowerChar ==
    [c \in Alphabet |->
        IF \E i \in 1..26 : UpperLetters[i] = c
        THEN LowerLetters[CHOOSE i \in 1..26 : UpperLetters[i] = c]
        ELSE c]

\* str.lower()
lower(s) == IF s = <<>> THEN <<>> ELSE [i \in 1..Len(s) |-> LowerChar[s[i]]]

\* str.strip()
RECURSIVE lstrip(_)
lstrip(s) == IF s # <<>> /\ Head(s) \in Whitespace THEN lstrip(Tail(s)) ELSE s

RECURSIVE rstrip(_)
rstrip(s) ==
    IF s # <<>> /\ s[Len(s)] \in Whitespace THEN rstrip(SubSeq(s, 1, Len(s) - 1)) ELSE s

strip(s) == rstrip(lstrip(s))

\* sub in s
In(sub, s) ==
    \E i \in 0..(Len(s) - Len(sub)) : SubSeq(s, i + 1, i + Len(sub)) = sub

\* s.startswith(p), s.endswith(p)
startswith(s, p) == Len(p) <= Len(s) /\ SubSeq(s, 1, Len(p)) = p

endswith(s, p) == Len(p) <= Len(s) /\ SubSeq(s, Len(s) - Len(p) + 1, Len(s)) = p

\* Index of the first character of s that is in C, Len(s) + 1 when there is none
FirstIndex(s, C) ==
    IF \E i \in 1..Len(s) : s[i] \in C
    THEN CHOOSE i \in 1..Len(s) : s[i] \in C /\ \A j \in 1..(i - 1) : s[j] \notin C
    ELSE Len(s) + 1

\* str(n) for n >= 0
RECURSIVE ToStr(_)
ToStr(n) == IF n < 10 THEN <<Digits[n + 1]>> ELSE ToStr(n \div 10) \o <<Digits[(n % 10) + 1]>>

---------------------------------------------------------------------------
(* Python values of a record's fields: None (also a missing key, which     *)
(* row.get gives as None), a number, a text, a boolean.                    *)

None == [t |-> "none", n |-> 0, s |-> <<>>]

Num(k) == [t |-> "num", n |-> k, s |-> <<>>]

Str(x) == [t |-> "str", n |-> 0, s |-> x]

Bool(b) == [t |-> "bool", n |-> IF b THEN 1 ELSE 0, s |-> <<>>]

\* bool(v)
Truthy(v) ==
    CASE v.t = "none" -> FALSE
      [] v.t = "num"  -> v.n # 0
      [] v.t = "bool" -> v.n = 1
      [] v.t = "str"  -> v.s # <<>>
      [] v.t = "list" -> v.s # <<>>

\* A list of texts
List(xs) == [t |-> "list", n |-> 0, s |-> xs]

\* a or b
Or(a, b) == IF Truthy(a) THEN a ELSE b

\* float(v) and int(v): a number converts; a text converts when it is an
\* unsigned integer literal and raises ValueError otherwise.  The result is
\* [ok, n]; ok = FALSE is the ValueError.
IsIntLiteral(s) == s # <<>> /\ \A i \in 1..Len(s) : \E d \in 1..10 : Digits[d] = s[i]

RECURSIVE DigitsValue(_)
DigitsValue(s) ==
    IF s = <<>> THEN 0
    ELSE 10 * DigitsValue(SubSeq(s, 1, Len(s) - 1))
         + (CHOOSE d \in 0..9 : Digits[d + 1] = s[Len(s)])

\* unit is 100 for a rating (held in hundredths) and 1 otherwise
ToNumber(v, unit) ==
    CASE v.t = "num"  -> [ok |-> TRUE, n |-> v.n]
      [] v.t = "bool" -> [ok |-> TRUE, n |-> v.n * unit]
      [] v.t = "str"  -> IF IsIntLiteral(strip(v.s))
                         THEN [ok |-> TRUE, n |-> DigitsValue(strip(v.s)) * unit]
                         ELSE [ok |-> FALSE, n |-> 0]
      [] v.t = "none" -> [ok |-> FALSE, n |-> 0]

---------------------------------------------------------------------------
(* urllib.parse.urlparse, as far as the callers read it: scheme, netloc,   *)
(* path and query.  ok = FALSE is the ValueError("Invalid IPv6 URL") of an *)
(* unbalanced bracket in the netloc.                                       *)

SchemeChars ==
    {UpperLetters[i] : i \in 1..26} \cup {LowerLetters[i] : i \in 1..26}
    \cup {Digits[i] : i \in 1..10} \cup {"+", "-", "."}

Letters == {UpperLetters[i] : i \in 1..26} \cup {LowerLetters[i] : i \in 1..26}

urlparse(url) ==
    LET colon     == FirstIndex(url, {":"})
        hasScheme == /\ colon > 1
                     /\ colon <= Len(url)
                     /\ url[1] \in Letters
                     /\ \A i \in 1..(colon - 1) : url[i] \in SchemeChars
        scheme    == IF hasScheme THEN lower(SubSeq(url, 1, colon - 1)) ELSE <<>>
        rest      == IF hasScheme THEN SubSeq(url, colon + 1, Len(url)) ELSE url
        hasNetloc == startswith(rest, <<"/", "/">>)
        after     == IF hasNetloc THEN SubSeq(rest, 3, Len(rest)) ELSE rest
        delim     == FirstIndex(after, {"/", "?", "#"})
        netloc    == IF hasNetloc THEN SubSeq(after, 1, delim - 1) ELSE <<>>
        tail      == IF hasNetloc THEN SubSeq(after, delim, Len(after)) ELSE rest
        hash      == FirstIndex(tail, {"#"})
        noFrag    == SubSeq(tail, 1, hash - 1)
        qmark     == FirstIndex(noFrag, {"?"})
        bad       == \/ (In(<<"[">>, netloc) /\ ~In(<<"]">>, netloc))
                     \/ (In(<<"]">>, netloc) /\ ~In(<<"[">>, netloc))
    IN  [ok     |-> ~bad,
         scheme |-> scheme,
         netloc |-> netloc,
         path   |-> SubSeq(noFrag, 1, qmark - 1),
         query  |-> SubSeq(noFrag, qmark + 1, Len(noFrag))]

---------------------------------------------------------------------------
(* scraper/maps_scraper.py: _valid_website_href *)

blacklist ==
    << <<"g", "o", "o", "g", "l", "e", ".", "c", "o", "m">>, <<"g", "o", "o", "g", "l", "e", "u", "s", "e", "r", "c", "o", "n", "t", "e", "n", "t", ".", "c", "o", "m">>, <<"g", "s", "t", "a", "t", "i", "c", ".", "c", "o", "m">>,
       <<"f", "o", "n", "t", "s", ".", "g", "s", "t", "a", "t", "i", "c", ".", "c", "o", "m">>, <<"a", "c", "c", "o", "u", "n", "t", "s", ".", "g", "o", "o", "g", "l", "e", ".", "c", "o", "m">>, <<"g", "g", "p", "h", "t", ".", "c", "o", "m">>,
       <<"g", "o", "o", "g", "l", "e", "a", "p", "i", "s", ".", "c", "o", "m">>, <<"d", "o", "u", "b", "l", "e", "c", "l", "i", "c", "k", ".", "n", "e", "t">>, <<"g", ".", "c", "o">> >>

ASSET_EXTENSIONS ==
    << <<".", "w", "o", "f", "f">>, <<".", "w", "o", "f", "f", "2">>, <<".", "t", "t", "f">>, <<".", "s", "v", "g">>, <<".", "c", "s", "s">>, <<".", "j", "s">> >>

\* href is a Python value: None or a text
_valid_website_href(href) ==
    IF ~Truthy(href) \/ ~startswith(href.s, <<"h", "t", "t", "p">>) THEN FALSE
    ELSE LET parsed == urlparse(href.s)
             domain == lower(parsed.netloc)
         IN  IF ~parsed.ok THEN FALSE
             ELSE IF \E i \in 1..Len(blacklist) : In(blacklist[i], domain) THEN FALSE
             ELSE IF \E i \in 1..Len(ASSET_EXTENSIONS) :
                         endswith(lower(href.s), ASSET_EXTENSIONS[i]) THEN FALSE
             ELSE TRUE

---------------------------------------------------------------------------
(* scraper/maps_scraper.py: extract_website_from_google_redirect *)

\* The percent escapes of the texts of the model: two hexadecimal digits,
\* lowercased, and the character they stand for
PercentCodes ==
    << <<<<"3", "a">>, ":">>, <<<<"2", "f">>, "/">>, <<<<"3", "f">>, "?">>, <<<<"3", "d">>, "=">>,
       <<<<"2", "6">>, "&">>, <<<<"2", "5">>, "%">>, <<<<"2", "0">>, " ">>, <<<<"2", "3">>, "#">> >>

IsEscapeAt(s, i) ==
    /\ s[i] = "%"
    /\ i + 2 <= Len(s)
    /\ \E k \in 1..Len(PercentCodes) : PercentCodes[k][1] = lower(SubSeq(s, i + 1, i + 2))

\* urllib.parse.unquote: every %XX becomes its character, anything else stays
RECURSIVE unquote(_)
unquote(s) ==
    IF s = <<>> THEN <<>>
    ELSE IF IsEscapeAt(s, 1)
         THEN <<PercentCodes[CHOOSE k \in 1..Len(PercentCodes) :
                    PercentCodes[k][1] = lower(SubSeq(s, 2, 3))][2]>>
              \o unquote(SubSeq(s, 4, Len(s)))
    ELSE <<Head(s)>> \o unquote(Tail(s))

\* s.replace('+', ' ')
PlusToSpace(s) == IF s = <<>> THEN <<>> ELSE [i \in 1..Len(s) |-> IF s[i] = "+" THEN " " ELSE s[i]]

\* s.split(sep) for a one-character separator
RECURSIVE split(_, _)
split(s, sep) ==
    LET i == FirstIndex(s, {sep})
    IN  IF i > Len(s) THEN <<s>>
        ELSE <<SubSeq(s, 1, i - 1)>> \o split(SubSeq(s, i + 1, Len(s)), sep)

\* urllib.parse.parse_qs(query).get(name): the values of the fields called
\* name, in order, blank values left out; <<>> stands for None
RECURSIVE ValuesOf(_, _)
ValuesOf(pairs, name) ==
    IF pairs = <<>> THEN <<>>
    ELSE LET nv    == Head(pairs)
             eq    == FirstIndex(nv, {"="})
             key   == unquote(PlusToSpace(SubSeq(nv, 1, eq - 1)))
             value == unquote(PlusToSpace(SubSeq(nv, eq + 1, Len(nv))))
         IN  (IF eq <= Len(nv) /\ eq < Len(nv) /\ key = name THEN <<value>> ELSE <<>>)
             \o ValuesOf(Tail(pairs), name)

parse_qs_get(query, name) == ValuesOf(split(query, "&"), name)

\* The outcome of a call that returns a Python value or raises
Returned(v) == [raised |-> FALSE, value |-> v]

RaisedError == [raised |-> TRUE, value |-> None]

\* Line 49
IsGoogleRedirect(parsed) ==
    In(<<"g", "o", "o", "g", "l", "e", ".", "c", "o", "m">>, parsed.netloc) /\ startswith(parsed.path, <<"/", "u", "r", "l">>)

\* href is a Python value: None or a text.  urlparse is called outside any
\* try, so its ValueError leaves the function.
extract_website_from_google_redirect(href) ==
    IF ~Truthy(href) THEN Returned(None)
    ELSE LET parsed == urlparse(href.s)
         IN  IF ~parsed.ok THEN RaisedError
             ELSE IF /\ IsGoogleRedirect(parsed)
                     /\ parse_qs_get(parsed.query, <<"q">>) # <<>>
                  THEN Returned(Str(unquote(parse_qs_get(parsed.query, <<"q">>)[1])))
             ELSE Returned(href)

---------------------------------------------------------------------------
(* scraper/maps_scraper.py: scrape_google_maps, the website of one card *)

\* What a search for an element gives: found or not (find_element raises),
\* and the href of the link found
Element(found, href) == [found |-> found, href |-> href]

\* What a search for a list of elements gives: failed (a WebDriver exception)
\* or the hrefs of the links, in order
Elements(failed, links) == [failed |-> failed, links |-> links]

\* The detail panel of a card: the authority link, the links beside each
\* Website button, the links of the main panel
Page(authority, buttons, panel) ==
    [authority |-> authority, buttons |-> buttons, panel |-> panel]

\* The outcome of one method: the exception that left it, if any, and the
\* value of the variable website after it
Found(raised, website) == [raised |-> raised, website |-> website]

\* Lines 125-137.  website is assigned the resolved href before, and whatever
\* the outcome of, the test of line 134; only NoSuchElementException is
\* caught, so the ValueError of the resolver leaves the method.
Assigned(r) == IF r.raised THEN Found(TRUE, None) ELSE Found(FALSE, r.value)

Method1(authority) ==
    IF ~authority.found THEN Found(FALSE, None)
    ELSE IF ~Truthy(authority.href) THEN Found(FALSE, None)
    ELSE Assigned(extract_website_from_google_redirect(authority.href))

\* The loop over links of lines 151-158 and 169-176: the first href whose
\* resolved target is accepted; an exception of the resolver ends the loop
\* Lines 154-155 and 172-173: the candidate of a link.  taken tells whether
\* it becomes the website.
Candidate(r) ==
    [raised |-> r.raised,
     taken  |-> ~r.raised /\ Truthy(r.value) /\ _valid_website_href(r.value),
     value  |-> r.value]

RECURSIVE FirstAcceptable(_)
FirstAcceptableFrom(candidate, rest) ==
    IF candidate.raised THEN Found(TRUE, None)
    ELSE IF candidate.taken THEN Found(FALSE, candidate.value)
    ELSE FirstAcceptable(rest)

FirstAcceptable(hrefs) ==
    IF hrefs = <<>> THEN Found(FALSE, None)
    ELSE IF ~Truthy(Head(hrefs)) THEN FirstAcceptable(Tail(hrefs))
    ELSE FirstAcceptableFrom(Candidate(extract_website_from_google_redirect(Head(hrefs))),
                             Tail(hrefs))

\* The loop over buttons of lines 147-160
RECURSIVE FirstInButtons(_)
FirstInButtonsFrom(r, rest) ==
    IF r.raised \/ Truthy(r.website) THEN r ELSE FirstInButtons(rest)

FirstInButtons(buttons) ==
    IF buttons = <<>> THEN Found(FALSE, None)
    ELSE FirstInButtonsFrom(FirstAcceptable(Head(buttons)), Tail(buttons))

\* except Exception of lines 161 and 177: website stays as it was, None
Caught(r) == IF r.raised THEN Found(FALSE, None) ELSE r

\* Lines 141-162
Method2(buttons) ==
    IF buttons.failed THEN Found(FALSE, None) ELSE Caught(FirstInButtons(buttons.links))

\* Lines 165-178
Method3(panel) ==
    IF panel.failed THEN Found(FALSE, None) ELSE Caught(FirstAcceptable(panel.links))

\* The record of a card as far as its website goes: the page it was read
\* from, the website stored (line 220), the methods that ran, and whether the
\* extraction of the details was abandoned (lines 211-212)
CardRecord(page, website, tried, abandoned) ==
    [page |-> page, website |-> website, tried |-> tried, abandoned |-> abandoned]

\* `if not website` of lines 140 and 165, and the handler of lines 211-212:
\* m1, m2 and m3 are what the methods give when they run
Methods(page, m1, m2, m3) ==
    IF m1.raised THEN CardRecord(page, None, {1}, TRUE)
    ELSE IF Truthy(m1.website) THEN CardRecord(page, m1.website, {1}, FALSE)
    ELSE IF Truthy(m2.website) THEN CardRecord(page, m2.website, {1, 2}, FALSE)
    ELSE CardRecord(page, m3.website, {1, 2, 3}, FALSE)

\* Lines 125-178 and 211-223 for one card
scrape_card(page) ==
    Methods(page, Method1(page.authority), Method2(page.buttons), Method3(page.panel))

---------------------------------------------------------------------------
(* run.py: quick_site_check *)

HTTPS_POINTS == 4

VIEWPORT_POINTS == 4

DESCRIPTION_POINTS == 3

CONTACT_POINTS == 4

ANALYTICS_POINTS == 5

SITE_SCORE_CAP == 20

HTTP_OK == 200

ANALYTICS_MARKERS == { <<"g", "t", "a", "g", "(">>, <<"a", "n", "a", "l", "y", "t", "i", "c", "s", ".", "j", "s">>, <<"g", "a", "(", "'">>, <<"g", "o", "o", "g", "l", "e", "-", "a", "n", "a", "l", "y", "t", "i", "c", "s">> }

\* What requests.get does: it raises (connection error, timeout), or gives a
\* response with a status and a page.  A page is what the checks read of it:
\* the names of its <meta name=...> elements, the href of each <a href=...> in
\* document order, and which of the script fragments of interest its text holds.
FetchError == [kind |-> "error", status |-> 0,
               page |-> [metas |-> {}, anchors |-> <<>>, fragments |-> {}]]

Response(status, page) == [kind |-> "response", status |-> status, page |-> page]

\* for a in soup.find_all("a", href=True): ... break
RECURSIVE HasContactLink(_)
HasContactLink(anchors) ==
    IF anchors = <<>> THEN FALSE
    ELSE LET href == lower(Head(anchors))
         IN  IF In(<<"m", "a", "i", "l", "t", "o", ":">>, href) \/ In(<<"c", "o", "n", "t", "a", "c", "t">>, href) THEN TRUE
             ELSE HasContactLink(Tail(anchors))

NoDetails == [kind |-> "empty", n |-> 0]

SiteResult(raised, score, details) == [raised |-> raised, score |-> score, details |-> details]

\* A mutant: of the four analytics markers only gtag( is looked for
PagePoints_GtagOnly(page) ==
    (IF "viewport" \in page.metas THEN VIEWPORT_POINTS ELSE 0)
    + (IF "description" \in page.metas THEN DESCRIPTION_POINTS ELSE 0)
    + (IF HasContactLink(page.anchors) THEN CONTACT_POINTS ELSE 0)
    + (IF <<"g", "t", "a", "g", "(">> \in page.fragments THEN ANALYTICS_POINTS ELSE 0)

\* The points of a fetched page (run.py:145-163)
PagePoints(page) ==
    (IF "viewport" \in page.metas THEN VIEWPORT_POINTS ELSE 0)
    + (IF "description" \in page.metas THEN DESCRIPTION_POINTS ELSE 0)
    + (IF HasContactLink(page.anchors) THEN CONTACT_POINTS ELSE 0)
    + (IF page.fragments \cap ANALYTICS_MARKERS # {} THEN ANALYTICS_POINTS ELSE 0)

Min(a, b) == IF a < b THEN a ELSE b

Max(a, b) == IF a > b THEN a ELSE b

\* A mutant: a response other than 200 returns the points counted so far.
quick_site_check_KeepsSchemePoints(url, webcheck, fetch) ==
    IF ~webcheck \/ url = <<>> THEN SiteResult(FALSE, 0, NoDetails)
    ELSE IF ~urlparse(url).ok \/ fetch.kind = "error"
         THEN SiteResult(FALSE, 0, [kind |-> "error", n |-> 0])
    ELSE LET score == IF urlparse(url).scheme = <<"h", "t", "t", "p", "s">> THEN HTTPS_POINTS ELSE 0
         IN  IF fetch.status # HTTP_OK
             THEN SiteResult(FALSE, score, [kind |-> "http_status", n |-> fetch.status])
             ELSE SiteResult(FALSE, Min(score + PagePoints(fetch.page), SITE_SCORE_CAP),
                             [kind |-> "site_score", n |-> score + PagePoints(fetch.page)])

\* url is a text.  The result is (score, details); raised is never TRUE, the
\* whole body after the first return being inside try/except Exception.
quick_site_check(url, webcheck, fetch) ==
    IF ~webcheck \/ url = <<>> THEN SiteResult(FALSE, 0, NoDetails)
    ELSE LET parsed == urlparse(url)
             score  == IF parsed.scheme = <<"h", "t", "t", "p", "s">> THEN HTTPS_POINTS ELSE 0
         IN  IF ~parsed.ok \/ fetch.kind = "error"
             THEN SiteResult(FALSE, 0, [kind |-> "error", n |-> 0])
             ELSE IF fetch.status # HTTP_OK
             THEN SiteResult(FALSE, 0, [kind |-> "http_status", n |-> fetch.status])
             ELSE SiteResult(FALSE, Min(score + PagePoints(fetch.page), SITE_SCORE_CAP),
                             [kind |-> "site_score", n |-> score + PagePoints(fetch.page)])

---------------------------------------------------------------------------
(* run.py: _compute_lead_score *)

BRAND_KEYWORDS ==
    << <<"k", "a", "j", "a", "r", "i", "a">>, <<"s", "o", "m", "a", "n", "y">>, <<"n", "i", "t", "c", "o">>, <<"v", "a", "r", "m", "o", "r", "a">>,
       <<"o", "r", "i", "e", "n", "t", "b", "e", "l", "l">>, <<"e", "x", "p", "e", "r", "i", "e", "n", "c", "e", " ", "c", "e", "n", "t", "r", "e">>, <<"b", "o", "u", "t", "i", "q", "u", "e">>, <<"i", "n", "f", "i", "n", "i", "t", "y">> >>

CATEGORY_KEYWORDS == << <<"t", "i", "l", "e">>, <<"t", "i", "l", "e", "s">>, <<"c", "e", "r", "a", "m", "i", "c">> >>

REASON_BRAND_NAME == <<"D", "I", "S", "Q", "U", "A", "L", "I", "F", "I", "E", "D", " ", EnDash, " ", "B", "r", "a", "n", "d", " ", "S", "h", "o", "w", "r", "o", "o", "m", " ", "(", "n", "a", "m", "e", " ", "m", "a", "t", "c", "h", ")">>

REASON_BRAND_WEBSITE == <<"D", "I", "S", "Q", "U", "A", "L", "I", "F", "I", "E", "D", " ", EnDash, " ", "B", "r", "a", "n", "d", " ", "S", "h", "o", "w", "r", "o", "o", "m", " ", "(", "w", "e", "b", "s", "i", "t", "e", " ", "m", "a", "t", "c", "h", ")">>

REASON_OFFLINE == <<"D", "I", "S", "Q", "U", "A", "L", "I", "F", "I", "E", "D", " ", EnDash, " ", "S", "t", "r", "o", "n", "g", " ", "O", "f", "f", "l", "i", "n", "e", " ", "P", "r", "e", "s", "e", "n", "c", "e">>

REASON_SCORED == <<"S", "c", "o", "r", "e", " ", "c", "o", "m", "p", "u", "t", "e", "d", " ", "f", "r", "o", "m", " ", "m", "a", "p", "s", " ", "s", "i", "g", "n", "a", "l", "s">>

\* 4.2, in hundredths
OFFLINE_MIN_RATING == 420

OFFLINE_MIN_REVIEWS == 50

SCORE_MAX == 100

\* A mutant: every brand is tried on the name before any is tried on the
\* website
BrandMatch_NameFirst(brands, name, website) ==
    IF \E i \in 1..Len(brands) : In(brands[i], name) THEN "name"
    ELSE IF website # <<>> /\ \E i \in 1..Len(brands) : In(brands[i], lower(website))
         THEN "website"
    ELSE "none"

\* for brand in BRAND_KEYWORDS: the name is tried before the website for each
\* brand in turn.  The result is "name", "website" or "none".
RECURSIVE BrandMatch(_, _, _)
BrandMatch(brands, name, website) ==
    IF brands = <<>> THEN "none"
    ELSE IF In(Head(brands), name) THEN "name"
    ELSE IF website # <<>> /\ In(Head(brands), lower(website)) THEN "website"
    ELSE BrandMatch(Tail(brands), name, website)

\* The fields as lines 43-50 read them.  business_name, website, phone and
\* category are None or a text in every record of the model.
Fields(row) ==
    [name        |-> lower(Or(row.business_name, Str(<<>>)).s),
     rating      |-> Or(row.rating, Num(0)),
     reviews     |-> Or(row.reviews, Num(0)),
     has_website |-> Truthy(row.has_website),
     website     |-> strip(Or(row.website, Str(<<>>)).s),
     phone       |-> strip(Or(row.phone, Or(row.phone_number, Str(<<>>))).s),
     photos      |-> Or(row.photos, Or(row.photo_count, Num(0))),
     category    |-> lower(Or(row.category, Str(<<>>)).s)]

\* A mutant: > where the code has >=
GE_Strict(v, k) == v.n > k

\* v >= k of line 60 for a number v
GE(v, k) == v.n >= k

\* Line 60 raises TypeError when a text is compared: and is evaluated left to
\* right and stops at the first false operand.
OfflineRaises(f) ==
    /\ ~f.has_website
    /\ \/ f.rating.t = "str"
       \/ (GE(f.rating, OFFLINE_MIN_RATING) /\ f.reviews.t = "str")

OfflineStrong(f) ==
    ~f.has_website /\ GE(f.rating, OFFLINE_MIN_RATING) /\ GE(f.reviews, OFFLINE_MIN_REVIEWS)

\* int(round(x)) of a score x >= 0 held in hundredths: Python rounds half to even
RoundPoints(h) ==
    LET q == h \div 100
        r == h % 100
    IN  IF r > 50 \/ (r = 50 /\ q % 2 = 1) THEN q + 1 ELSE q

\* Whether line 73 calls quick_site_check
CallsProber(f, webcheck) == f.has_website /\ f.website # <<>> /\ webcheck

\* A mutant: the site score is added without the cap of line 78
WebsitePoints_NoCap(has_website, site_score) ==
    IF has_website THEN 1000 + 100 * site_score ELSE 0

\* Lines 66-78: 10 for a website and min(site_score, 20), in hundredths
WebsitePoints(has_website, site_score) ==
    IF has_website THEN 1000 + 100 * Min(site_score, SITE_SCORE_CAP) ELSE 0

\* A mutant: the rating term is capped at its 20 points
Accumulate_RatingCapped(f, webcheck, probe) ==
    LET site_score == IF CallsProber(f, webcheck) /\ ~probe.raised THEN probe.score ELSE 0
        rating     == ToNumber(f.rating, 100)
        reviews    == ToNumber(f.reviews, 1)
        photos     == ToNumber(f.photos, 1)
    IN  WebsitePoints(f.has_website, site_score)
        + (IF rating.ok THEN Min(4 * rating.n, 2000) ELSE 0)
        + (IF reviews.ok THEN Min(20 * reviews.n, 2000) ELSE 0)
        + (IF f.phone # <<>> THEN 1000 ELSE 0)
        + (IF photos.ok THEN Min(100 * photos.n, 1000) ELSE 0)
        + (IF \E i \in 1..Len(CATEGORY_KEYWORDS) : In(CATEGORY_KEYWORDS[i], f.category)
           THEN 1000 ELSE 0)

\* The sum of lines 63-108, in hundredths of a point.  probe is the outcome of
\* the call of quick_site_check, read only when the call is made.
Accumulate(f, webcheck, probe) ==
    LET site_score == IF CallsProber(f, webcheck) /\ ~probe.raised THEN probe.score ELSE 0
        rating     == ToNumber(f.rating, 100)
        reviews    == ToNumber(f.reviews, 1)
        photos     == ToNumber(f.photos, 1)
    IN  WebsitePoints(f.has_website, site_score)
        + (IF rating.ok THEN 4 * rating.n ELSE 0)
        + (IF reviews.ok THEN Min(20 * reviews.n, 2000) ELSE 0)
        + (IF f.phone # <<>> THEN 1000 ELSE 0)
        + (IF photos.ok THEN Min(100 * photos.n, 1000) ELSE 0)
        + (IF \E i \in 1..Len(CATEGORY_KEYWORDS) : In(CATEGORY_KEYWORDS[i], f.category)
           THEN 1000 ELSE 0)

\* A mutant: the sum is capped at 100 and not raised to 0
ClampPoints_NoFloor(h) == Min(h, 100 * SCORE_MAX)

\* max(0.0, min(score, 100.0)), in hundredths
ClampPoints(h) == Max(0, Min(h, 100 * SCORE_MAX))

ScoreResult(raised, score, reason, probed, site_score) ==
    [raised |-> raised, score |-> score, reason |-> reason,
     probed |-> probed, site_score |-> site_score]

\* Lines 63-113: the score of a record that no disqualifier stops
Scored(f, webcheck, probe) ==
    ScoreResult(FALSE,
                RoundPoints(ClampPoints(Accumulate(f, webcheck, probe))),
                REASON_SCORED,
                CallsProber(f, webcheck),
                IF CallsProber(f, webcheck) /\ ~probe.raised THEN probe.score ELSE 0)

\* A mutant: the offline disqualifier is tried before the brand disqualifier
_compute_lead_score_OfflineFirst(row, webcheck, probe) ==
    LET f     == Fields(row)
        brand == BrandMatch(BRAND_KEYWORDS, f.name, f.website)
    IN  IF OfflineRaises(f) THEN ScoreResult(TRUE, 0, <<>>, FALSE, 0)
        ELSE IF OfflineStrong(f) THEN ScoreResult(FALSE, 0, REASON_OFFLINE, FALSE, 0)
        ELSE IF brand = "name" THEN ScoreResult(FALSE, 0, REASON_BRAND_NAME, FALSE, 0)
        ELSE IF brand = "website" THEN ScoreResult(FALSE, 0, REASON_BRAND_WEBSITE, FALSE, 0)
        ELSE Scored(f, webcheck, probe)

\* The outcome of _compute_lead_score(row): raised (a TypeError leaves the
\* function) or (score, reason); probed and site_score tell whether
\* quick_site_check was called and what it gave.
_compute_lead_score(row, webcheck, probe) ==
    LET f     == Fields(row)
        brand == BrandMatch(BRAND_KEYWORDS, f.name, f.website)
    IN  IF brand = "name" THEN ScoreResult(FALSE, 0, REASON_BRAND_NAME, FALSE, 0)
        ELSE IF brand = "website" THEN ScoreResult(FALSE, 0, REASON_BRAND_WEBSITE, FALSE, 0)
        ELSE IF OfflineRaises(f) THEN ScoreResult(TRUE, 0, <<>>, FALSE, 0)
        ELSE IF OfflineStrong(f) THEN ScoreResult(FALSE, 0, REASON_OFFLINE, FALSE, 0)
        ELSE Scored(f, webcheck, probe)

---------------------------------------------------------------------------
(* run.py: classify_lead *)

HIGH_MIN == 70

MEDIUM_MIN == 40

LABEL_HIGH == <<"P", "U", "R", "S", "U", "E", " ", EnDash, " ", "H", "i", "g", "h", " ", "P", "r", "i", "o", "r", "i", "t", "y">>

LABEL_MEDIUM == <<"P", "O", "T", "E", "N", "T", "I", "A", "L", " ", EnDash, " ", "M", "e", "d", "i", "u", "m", " ", "P", "r", "i", "o", "r", "i", "t", "y">>

LABEL_LOW == <<"L", "O", "W", " ", EnDash, " ", "L", "o", "w", " ", "P", "r", "i", "o", "r", "i", "t", "y">>

\* f"{tier} opportunity (score={score}). {reason}"
Explanation(tier, score, reason) ==
    tier \o <<" ", "o", "p", "p", "o", "r", "t", "u", "n", "i", "t", "y", " ", "(", "s", "c", "o", "r", "e", "=">> \o ToStr(score) \o <<")", ".", " ">> \o reason

Classification(raised, category, explanation, score) ==
    [raised |-> raised, category |-> category, explanation |-> explanation, score |-> score]

\* A mutant: > where line 183 has >=
classify_lead_StrictHigh(sr) ==
    IF sr.raised THEN Classification(TRUE, <<>>, <<>>, 0)
    ELSE IF sr.score = 0 /\ startswith(sr.reason, <<"D", "I", "S", "Q", "U", "A", "L", "I", "F", "I", "E", "D">>)
         THEN Classification(FALSE, sr.reason, sr.reason, sr.score)
    ELSE IF sr.score > HIGH_MIN
         THEN Classification(FALSE, LABEL_HIGH, Explanation(<<"H", "i", "g", "h">>, sr.score, sr.reason), sr.score)
    ELSE IF sr.score >= MEDIUM_MIN
         THEN Classification(FALSE, LABEL_MEDIUM, Explanation(<<"M", "e", "d", "i", "u", "m">>, sr.score, sr.reason), sr.score)
    ELSE Classification(FALSE, LABEL_LOW, Explanation(<<"L", "o", "w">>, sr.score, sr.reason), sr.score)

\* A mutant: line 179 tests the score alone
classify_lead_ZeroIsDisqualified(sr) ==
    IF sr.raised THEN Classification(TRUE, <<>>, <<>>, 0)
    ELSE IF sr.score = 0
         THEN Classification(FALSE, sr.reason, sr.reason, sr.score)
    ELSE IF sr.score >= HIGH_MIN
         THEN Classification(FALSE, LABEL_HIGH, Explanation(<<"H", "i", "g", "h">>, sr.score, sr.reason), sr.score)
    ELSE IF sr.score >= MEDIUM_MIN
         THEN Classification(FALSE, LABEL_MEDIUM, Explanation(<<"M", "e", "d", "i", "u", "m">>, sr.score, sr.reason), sr.score)
    ELSE Classification(FALSE, LABEL_LOW, Explanation(<<"L", "o", "w">>, sr.score, sr.reason), sr.score)

\* sr is the outcome of the call of _compute_lead_score on line 177; an
\* exception of that call leaves classify_lead too.
classify_lead(sr) ==
    IF sr.raised THEN Classification(TRUE, <<>>, <<>>, 0)
    ELSE IF sr.score = 0 /\ startswith(sr.reason, <<"D", "I", "S", "Q", "U", "A", "L", "I", "F", "I", "E", "D">>)
         THEN Classification(FALSE, sr.reason, sr.reason, sr.score)
    ELSE IF sr.score >= HIGH_MIN
         THEN Classification(FALSE, LABEL_HIGH, Explanation(<<"H", "i", "g", "h">>, sr.score, sr.reason), sr.score)
    ELSE IF sr.score >= MEDIUM_MIN
         THEN Classification(FALSE, LABEL_MEDIUM, Explanation(<<"M", "e", "d", "i", "u", "m">>, sr.score, sr.reason), sr.score)
    ELSE Classification(FALSE, LABEL_LOW, Explanation(<<"L", "o", "w">>, sr.score, sr.reason), sr.score)

---------------------------------------------------------------------------
(* run.py: main, the jobs and their search strings *)

\* A job of the configuration; a key the job does not have reads None
Job(categories, category_list, cities, city_list, query, category, search, city, city_name, q) ==
    [categories |-> categories, category_list |-> category_list,
     cities |-> cities, city_list |-> city_list,
     query |-> query, category |-> category, search |-> search,
     city |-> city, city_name |-> city_name, q |-> q]

DEFAULT_QUERY == <<"t", "i", "l", "e", "s", " ", "s", "h", "o", "p">>

DEFAULT_CITY == <<"j", "a", "i", "p", "u", "r">>

\* new = dict(job) without its category lists and its city lists
PopCategories(job) == [job EXCEPT !.categories = None, !.category_list = None]

PopCities(job) == [job EXCEPT !.cities = None, !.city_list = None]

\* Lines 246-307 for one job of raw_jobs: the jobs appended to expanded
expand_job(job) ==
    LET cats   == Or(job.categories, job.category_list)
        cities == Or(job.cities, job.city_list)
        city   == Or(job.city, job.city_name)
        q      == Or(job.query, Or(job.category, job.search))
    IN  IF Truthy(cats) /\ Truthy(cities)
        THEN [k \in 1..(Len(cats.s) * Len(cities.s)) |->
                [PopCities(PopCategories(job)) EXCEPT
                    !.query = Str(cats.s[((k - 1) \div Len(cities.s)) + 1]),
                    !.city  = Str(cities.s[((k - 1) % Len(cities.s)) + 1])]]
        ELSE IF Truthy(cats)
        THEN IF Truthy(city)
             THEN [k \in 1..Len(cats.s) |->
                     [PopCategories(job) EXCEPT !.query = Str(cats.s[k]), !.city = city]]
             ELSE [k \in 1..Len(cats.s) |->
                     [PopCategories(job) EXCEPT !.search = Str(cats.s[k])]]
        ELSE IF Truthy(cities)
        THEN IF Truthy(q)
             THEN [k \in 1..Len(cities.s) |->
                     [PopCities(job) EXCEPT !.query = q, !.city = Str(cities.s[k])]]
             ELSE [k \in 1..Len(cities.s) |->
                     [PopCities(job) EXCEPT
                        !.search = Str(Or(job.search, Str(<<>>)).s \o <<" ", "i", "n", " ">> \o cities.s[k])]]
        ELSE <<job>>

\* Lines 340-345: the search string run for a job
search_query(job) ==
    IF Truthy(job.search) THEN job.search.s
    ELSE LET q == Or(job.query, Or(job.q, Str(DEFAULT_QUERY)))
             c == Or(job.city, Str(DEFAULT_CITY))
         IN  IF Truthy(c) THEN q.s \o <<" ", "i", "n", " ">> \o c.s ELSE q.s

\* What main does with one job of the configuration: the jobs it expands to
\* and the search string run for each
Run(job, expanded) ==
    [job |-> job, expanded |-> expanded,
     searches |-> [k \in 1..Len(expanded) |-> search_query(expanded[k])]]

---------------------------------------------------------------------------
(* The inputs of the model *)

\* Largest rating (in hundredths), reviews, photos and stub score tried
MaxRating == 600

MaxReviews == 600

MaxPhotos == 30

MaxStubScore == 25

Unparseable == Str(<<"n", "/", "a">>)

Row(name, rating, reviews, has_website, website, contact, pics, category) ==
    [business_name |-> name, rating |-> rating, reviews |-> reviews,
     has_website |-> has_website, website |-> website,
     phone |-> contact[1], phone_number |-> contact[2],
     photos |-> pics[1], photo_count |-> pics[2], category |-> category]

Names ==
    {None, Str(<<"K", "a", "j", "a", "r", "i", "a", " ", "T", "i", "l", "e", "s", " ", "J", "a", "i", "p", "u", "r">>), Str(<<"S", "o", "m", "e", " ", "L", "o", "c", "a", "l", " ", "S", "t", "o", "r", "e">>), Str(<<"L", "o", "c", "a", "l", " ", "T", "i", "l", "e", "s">>)}

Websites ==
    {None, Str(<<" ">>), Str(<<"h", "t", "t", "p", "s", ":", "/", "/", "e", "x", "a", "m", "p", "l", "e", ".", "c", "o", "m">>), Str(<<"h", "t", "t", "p", "s", ":", "/", "/", "w", "w", "w", ".", "S", "o", "m", "a", "n", "y", "C", "e", "r", "a", "m", "i", "c", "s", ".", "c", "o", "m", " ">>)}

\* Around the thresholds of the offline disqualifier
Ratings == {None, Num(400), Num(419), Num(420), Num(430), Unparseable}

ReviewCounts == {None, Num(20), Num(49), Num(50), Num(60), Unparseable}

\* In and out of the expected range
ScoringRatings == {None, Num(400), Num(419), Num(MaxRating), Num(-100), Unparseable}

ScoringReviewCounts == {None, Num(20), Num(60), Num(MaxReviews), Num(-50), Unparseable}

Contacts ==
    {<<None, None>>, <<Str(<<"+", "9", "1", " ", "9", "8", "7", "6", "5", " ", "4", "3", "2", "1", "0">>), None>>, <<Str(<<" ">>), Str(<<"0", "1", "4", "1", "-", "2", "3", "4", "5", "6", "7", "8">>)>>}

PhotoCounts ==
    {<<None, None>>, <<Num(5), None>>, <<None, Num(MaxPhotos)>>, <<Num(-200), None>>,
     <<Unparseable, Num(9)>>, <<Str(<<" ", "7">>), None>>}

Categories == {None, Str(<<"T", "i", "l", "e", " ", "s", "h", "o", "p">>), Str(<<"H", "a", "r", "d", "w", "a", "r", "e", " ", "s", "t", "o", "r", "e">>)}

\* The records of the repository's tests (tests/test_classifier.py)
TestRows ==
    { Row(Str(<<"K", "a", "j", "a", "r", "i", "a", " ", "T", "i", "l", "e", "s", " ", "J", "a", "i", "p", "u", "r">>), Num(400), Num(10), Bool(FALSE), None,
          <<None, None>>, <<None, None>>, None),
      Row(Str(<<"S", "o", "m", "e", " ", "L", "o", "c", "a", "l", " ", "S", "t", "o", "r", "e">>), Num(430), Num(60), Bool(FALSE), None,
          <<None, None>>, <<None, None>>, None),
      Row(Str(<<"L", "o", "c", "a", "l", " ", "T", "i", "l", "e", "s">>), Num(400), Num(20), Bool(TRUE), Str(<<"h", "t", "t", "p", "s", ":", "/", "/", "e", "x", "a", "m", "p", "l", "e", ".", "c", "o", "m">>),
          <<None, None>>, <<None, None>>, None) }

\* Records that vary what the two disqualifiers read
DisqualifierRows ==
    { Row(nm, ra, rv, hw, ws, <<None, None>>, <<None, None>>, None) :
        nm \in Names, ra \in Ratings, rv \in ReviewCounts,
        hw \in {None, Bool(FALSE), Bool(TRUE)}, ws \in Websites }

\* Records of one local business that vary what the sum reads
ScoringRows ==
    { Row(Str(<<"L", "o", "c", "a", "l", " ", "T", "i", "l", "e", "s">>), ra, rv, w[1], w[2], ct, ph, cat) :
        ra \in ScoringRatings, rv \in ScoringReviewCounts,
        w \in {<<Bool(TRUE), Str(<<"h", "t", "t", "p", "s", ":", "/", "/", "e", "x", "a", "m", "p", "l", "e", ".", "c", "o", "m">>)>>, <<Bool(TRUE), None>>,
               <<Bool(FALSE), None>>},
        ct \in Contacts, ph \in PhotoCounts, cat \in Categories }

\* Records whose name holds a brand listed after, or together with, the brand
\* their website holds
BrandRows ==
    { Row(Str(<<"O", "r", "i", "e", "n", "t", "b", "e", "l", "l", " ", "T", "i", "l", "e", " ", "G", "a", "l", "l", "e", "r", "y">>), Num(400), Num(20), hw, ws,
          <<None, None>>, <<None, None>>, None) :
        hw \in {Bool(FALSE), Bool(TRUE)},
        ws \in {None, Str(<<"h", "t", "t", "p", "s", ":", "/", "/", "w", "w", "w", ".", "S", "o", "m", "a", "n", "y", "C", "e", "r", "a", "m", "i", "c", "s", ".", "c", "o", "m", " ">>), Str(<<"h", "t", "t", "p", "s", ":", "/", "/", "w", "w", "w", ".", "o", "r", "i", "e", "n", "t", "b", "e", "l", "l", ".", "c", "o", "m">>)} }

Rows == TestRows \cup DisqualifierRows \cup ScoringRows \cup BrandRows

Pages ==
    [metas     : SUBSET {"viewport", "description"},
     anchors   : {<<>>, <<<<"/", "a", "b", "o", "u", "t">>>>, <<<<"/", "a", "b", "o", "u", "t">>, <<"/", "C", "o", "n", "t", "a", "c", "t", "-", "U", "s">>>>,
                  <<<<"M", "A", "I", "L", "T", "O", ":", "i", "n", "f", "o", "@", "e", "x", "a", "m", "p", "l", "e", ".", "c", "o", "m">>>>},
     fragments : {{}, {<<"g", "t", "a", "g", "(">>}, {<<"j", "q", "u", "e", "r", "y", ".", "m", "i", "n", ".", "j", "s">>}, {<<"j", "q", "u", "e", "r", "y", ".", "m", "i", "n", ".", "j", "s">>, <<"g", "o", "o", "g", "l", "e", "-", "a", "n", "a", "l", "y", "t", "i", "c", "s">>}}]

EmptyPage == [metas |-> {}, anchors |-> <<>>, fragments |-> {}]

FetchOutcomes ==
    {FetchError, Response(404, EmptyPage), Response(204, EmptyPage)}
    \cup {Response(HTTP_OK, p) : p \in Pages}

Urls ==
    {<<>>, <<"h", "t", "t", "p", "s", ":", "/", "/", "e", "x", "a", "m", "p", "l", "e", ".", "c", "o", "m">>, <<"h", "t", "t", "p", ":", "/", "/", "e", "x", "a", "m", "p", "l", "e", ".", "c", "o", "m", "/", "s", "h", "o", "p">>, <<"H", "T", "T", "P", "S", ":", "/", "/", "E", "x", "a", "m", "p", "l", "e", ".", "c", "o", "m">>,
     <<"h", "t", "t", "p", "s", ":", "/", "/", "[", "e", "x", "a", "m", "p", "l", "e", ".", "c", "o", "m">>}

Hrefs ==
    {None, Str(<<>>),
     Str(<<"h", "t", "t", "p", "s", ":", "/", "/", "e", "x", "a", "m", "p", "l", "e", ".", "c", "o", "m">>),
     Str(<<"h", "t", "t", "p", ":", "/", "/", "e", "x", "a", "m", "p", "l", "e", ".", "c", "o", "m", "/", "s", "h", "o", "p">>),
     Str(<<"H", "T", "T", "P", "S", ":", "/", "/", "E", "X", "A", "M", "P", "L", "E", ".", "C", "O", "M">>),
     Str(<<"f", "t", "p", ":", "/", "/", "e", "x", "a", "m", "p", "l", "e", ".", "c", "o", "m">>),
     Str(<<"h", "t", "t", "p", "x", ":", "/", "/", "e", "x", "a", "m", "p", "l", "e", ".", "c", "o", "m">>),
     Str(<<"h", "t", "t", "p", "/", "/", "e", "x", "a", "m", "p", "l", "e", ".", "c", "o", "m">>),
     Str(<<"/", "m", "a", "p", "s", "/", "p", "l", "a", "c", "e", "/", "x">>),
     Str(<<"h", "t", "t", "p", ":", "/", "/", "[", "e", "x", "a", "m", "p", "l", "e", ".", "c", "o", "m">>),
     Str(<<"h", "t", "t", "p", "s", ":", "/", "/", "w", "w", "w", ".", "G", "o", "o", "g", "l", "e", ".", "c", "o", "m", "/", "m", "a", "p", "s">>),
     Str(<<"h", "t", "t", "p", "s", ":", "/", "/", "f", "o", "n", "t", "s", ".", "g", "s", "t", "a", "t", "i", "c", ".", "c", "o", "m", "/", "s", "/", "a", ".", "w", "o", "f", "f", "2">>),
     Str(<<"h", "t", "t", "p", "s", ":", "/", "/", "b", "l", "o", "g", ".", "c", "o", "m">>),
     Str(<<"h", "t", "t", "p", "s", ":", "/", "/", "e", "x", "a", "m", "p", "l", "e", ".", "c", "o", "m", "/", "g", "o", "o", "g", "l", "e", ".", "c", "o", "m">>),
     Str(<<"h", "t", "t", "p", "s", ":", "/", "/", "e", "x", "a", "m", "p", "l", "e", ".", "c", "o", "m", "/", "f", "o", "n", "t", ".", "W", "O", "F", "F", "2">>),
     Str(<<"h", "t", "t", "p", "s", ":", "/", "/", "e", "x", "a", "m", "p", "l", "e", ".", "c", "o", "m", "/", "a", "p", "p", ".", "j", "s">>),
     Str(<<"h", "t", "t", "p", "s", ":", "/", "/", "e", "x", "a", "m", "p", "l", "e", ".", "c", "o", "m", "/", "a", "p", "p", ".", "j", "s", "?", "v", "=", "1">>),
     Str(<<"h", "t", "t", "p", "s", ":", "/", "/", "e", "x", "a", "m", "p", "l", "e", ".", "c", "o", "m", "/", "?", "f", "i", "l", "e", "=", "l", "o", "g", "o", ".", "s", "v", "g">>),
     Str(<<"h", "t", "t", "p", "s", ":", "/", "/", "e", "x", "a", "m", "p", "l", "e", ".", "j", "s">>),
     Str(<<"h", "t", "t", "p", "s", ":", "/", "/", "e", "x", "a", "m", "p", "l", "e", ".", "c", "o", "m", "/", "s", "t", "y", "l", "e", ".", "c", "s", "s", "#", "t", "o", "p">>)}

\* The hrefs handed to extract_website_from_google_redirect: a missing
\* attribute, the empty text, plain links, the provider's redirect links with
\* and without a target, and a link urlparse rejects
RedirectHrefs ==
    {None, Str(<<>>),
     Str(<<"h", "t", "t", "p", "s", ":", "/", "/", "s", "h", "o", "p", ".", "e", "x", "a", "m", "p", "l", "e", ".", "c", "o", "m", "/", "a", "?", "b", "=", "c">>),
     Str(<<"/", "m", "a", "p", "s", "/", "p", "l", "a", "c", "e", "/", "x">>),
     Str(<<"h", "t", "t", "p", "s", ":", "/", "/", "w", "w", "w", ".", "g", "o", "o", "g", "l", "e", ".", "c", "o", "m", "/", "m", "a", "p", "s", "/", "p", "l", "a", "c", "e", "?", "q", "=", "t", "i", "l", "e", "s">>),
     Str(<<"h", "t", "t", "p", "s", ":", "/", "/", "w", "w", "w", ".", "g", "o", "o", "g", "l", "e", ".", "c", "o", "m", "/", "u", "r", "l", "?", "q", "=", "h", "t", "t", "p", "s", "%", "3", "A", "%", "2", "F", "%", "2", "F", "s", "h", "o", "p", ".", "e", "x", "a", "m", "p", "l", "e", ".", "c", "o", "m", "%", "2", "F", "&", "s", "a", "=", "U">>),
     Str(<<"h", "t", "t", "p", "s", ":", "/", "/", "w", "w", "w", ".", "g", "o", "o", "g", "l", "e", ".", "c", "o", "m", "/", "u", "r", "l", "?", "s", "a", "=", "U", "&", "q", "=", "h", "t", "t", "p", ":", "/", "/", "a", ".", "e", "x", "a", "m", "p", "l", "e", ".", "c", "o", "m", "/", "x", "%", "2", "5", "2", "0", "y">>),
     Str(<<"h", "t", "t", "p", "s", ":", "/", "/", "w", "w", "w", ".", "g", "o", "o", "g", "l", "e", ".", "c", "o", "m", "/", "u", "r", "l", "?", "s", "a", "=", "U">>),
     Str(<<"h", "t", "t", "p", "s", ":", "/", "/", "w", "w", "w", ".", "g", "o", "o", "g", "l", "e", ".", "c", "o", "m", "/", "u", "r", "l", "?", "q", "=">>),
     Str(<<"h", "t", "t", "p", "s", ":", "/", "/", "w", "w", "w", ".", "G", "o", "o", "g", "l", "e", ".", "c", "o", "m", "/", "u", "r", "l", "?", "q", "=", "h", "t", "t", "p", "s", ":", "/", "/", "x", ".", "e", "x", "a", "m", "p", "l", "e", ".", "c", "o", "m">>),
     Str(<<"h", "t", "t", "p", ":", "/", "/", "[", "e", "x", "a", "m", "p", "l", "e", ".", "c", "o", "m">>)}

MaxLinks == 2

MaxButtons == 2

\* The hrefs of the authority link: no href attribute, a business's site,
\* the provider's redirect to it, a page of the provider, and a link urlparse
\* rejects
AuthorityHrefs ==
    {None,
     Str(<<"h", "t", "t", "p", "s", ":", "/", "/", "s", "h", "o", "p", ".", "e", "x", "a", "m", "p", "l", "e", ".", "c", "o", "m">>),
     Str(<<"h", "t", "t", "p", "s", ":", "/", "/", "w", "w", "w", ".", "g", "o", "o", "g", "l", "e", ".", "c", "o", "m", "/", "u", "r", "l", "?", "q", "=", "h", "t", "t", "p", "s", "%", "3", "A", "%", "2", "F", "%", "2", "F", "s", "h", "o", "p", ".", "e", "x", "a", "m", "p", "l", "e", ".", "c", "o", "m", "%", "2", "F", "&", "s", "a", "=", "U">>),
     Str(<<"h", "t", "t", "p", "s", ":", "/", "/", "w", "w", "w", ".", "g", "o", "o", "g", "l", "e", ".", "c", "o", "m", "/", "m", "a", "p", "s", "/", "p", "l", "a", "c", "e", "/", "x">>),
     Str(<<"h", "t", "t", "p", ":", "/", "/", "[", "e", "x", "a", "m", "p", "l", "e", ".", "c", "o", "m">>)}

LinkHrefs ==
    {None,
     Str(<<"h", "t", "t", "p", "s", ":", "/", "/", "t", "i", "l", "e", "s", ".", "e", "x", "a", "m", "p", "l", "e", ".", "o", "r", "g">>),
     Str(<<"h", "t", "t", "p", "s", ":", "/", "/", "w", "w", "w", ".", "g", "o", "o", "g", "l", "e", ".", "c", "o", "m", "/", "m", "a", "p", "s", "/", "p", "l", "a", "c", "e", "/", "x">>),
     Str(<<"h", "t", "t", "p", ":", "/", "/", "[", "e", "x", "a", "m", "p", "l", "e", ".", "c", "o", "m">>)}

\* The sequences of length k, and of length up to n, of elements of S
RECURSIVE SeqsOfLen(_, _)
SeqsOfLen(S, k) ==
    IF k = 0 THEN {<<>>} ELSE {Append(xs, x) : xs \in SeqsOfLen(S, k - 1), x \in S}

SeqsUpTo(S, n) == UNION {SeqsOfLen(S, k) : k \in 0..n}

Authorities == {Element(FALSE, None)} \cup {Element(TRUE, h) : h \in AuthorityHrefs}

\* Each Website button has no link or one link beside it
Buttons ==
    {Elements(TRUE, <<>>)}
    \cup {Elements(FALSE, bs) : bs \in SeqsUpTo(SeqsUpTo(LinkHrefs, 1), MaxButtons)}

Panels ==
    {Elements(TRUE, <<>>)} \cup {Elements(FALSE, ls) : ls \in SeqsUpTo(LinkHrefs, MaxLinks)}

CardPages == {Page(a, b, p) : a \in Authorities, b \in Buttons, p \in Panels}

MaxCities == 2

CityNames == <<<<"j", "a", "i", "p", "u", "r">>, <<"d", "e", "l", "h", "i">>, <<"u", "d", "a", "i", "p", "u", "r">>, <<"k", "o", "t", "a">>>>

CityLists == {List(SubSeq(CityNames, 1, n)) : n \in 1..MaxCities}

CategoryList == List(<<<<"t", "i", "l", "e", "s">>, <<"m", "a", "r", "b", "l", "e">>>>)

\* The jobs of a configuration file: each key absent or given, the lists
\* under either of their two names
Jobs ==
    { Job(cl[1], cl[2], ci[1], ci[2], query, category, search, cy[1], cy[2], q) :
        cl \in {<<None, None>>, <<CategoryList, None>>, <<None, CategoryList>>},
        ci \in {<<None, None>>} \cup {<<l, None>> : l \in CityLists}
                                \cup {<<None, l>> : l \in CityLists},
        query \in {None, Str(<<"t", "i", "l", "e", "s", " ", "s", "h", "o", "p">>)},
        category \in {None, Str(<<"s", "a", "n", "i", "t", "a", "r", "y", " ", "w", "a", "r", "e">>)},
        search \in {None, Str(<<"t", "i", "l", "e", " ", "d", "e", "a", "l", "e", "r", "s">>)},
        cy \in {<<None, None>>, <<Str(<<"p", "u", "n", "e">>), None>>, <<None, Str(<<"a", "j", "m", "e", "r">>)>>},
        q \in {None, Str(<<"g", "r", "a", "n", "i", "t", "e">>)} }

---------------------------------------------------------------------------
(* The state machine *)

Real == [t |-> "real", score |-> 0]

Stub(k) == [t |-> "stub", score |-> k]

StubScores == {-5, 15, MaxStubScore}

NoRow == Row(None, None, None, None, None, <<None, None>>, <<None, None>>, None)

Call(op, row, url, fetch, href) ==
    [op |-> op, row |-> row, url |-> url, fetch |-> fetch, href |-> href]

Idle == Call("idle", NoRow, <<>>, FetchError, None)

NoScore == ScoreResult(FALSE, 0, <<>>, FALSE, 0)

NoClass == Classification(FALSE, <<>>, <<>>, 0)

NoSite == SiteResult(FALSE, 0, NoDetails)

NoResolved == Returned(None)

NoCard ==
    CardRecord(Page(Element(FALSE, None), Elements(TRUE, <<>>), Elements(TRUE, <<>>)),
               None, {}, FALSE)

NoJob == Job(None, None, None, None, None, None, None, None, None, None)

NoRun == Run(NoJob, <<>>)

\* What the call quick_site_check(website) of line 73 can give: the outcomes
\* of the function itself over every fetch, or the stub's fixed score.
ProbeOutcomes(row, binding, webcheck) ==
    IF ~CallsProber(Fields(row), webcheck) THEN {NoSite}
    ELSE IF binding.t = "stub" THEN {SiteResult(FALSE, binding.score, NoDetails)}
    ELSE {quick_site_check(Fields(row).website, webcheck, o) : o \in FetchOutcomes}

Init ==
    /\ WEBCHECK_AVAILABLE \in BOOLEAN
    /\ prober = Real
    /\ call = Idle
    /\ scored = NoScore
    /\ classified = NoClass
    /\ site = NoSite
    /\ href_ok = FALSE
    /\ resolved = NoResolved
    /\ card = NoCard
    /\ ran = NoRun

\* A test replaces quick_site_check by a stub (monkeypatch.setattr)
Monkeypatch ==
    /\ call = Idle
    /\ prober = Real
    /\ \E k \in StubScores : prober' = Stub(k)
    /\ call' = Idle /\ scored' = NoScore /\ classified' = NoClass
    /\ site' = NoSite /\ href_ok' = FALSE
    /\ resolved' = NoResolved /\ card' = NoCard /\ ran' = NoRun
    /\ UNCHANGED WEBCHECK_AVAILABLE

\* The test ends and the fixture restores the function
Unpatch ==
    /\ call = Idle
    /\ prober # Real
    /\ prober' = Real
    /\ call' = Idle /\ scored' = NoScore /\ classified' = NoClass
    /\ site' = NoSite /\ href_ok' = FALSE
    /\ resolved' = NoResolved /\ card' = NoCard /\ ran' = NoRun
    /\ UNCHANGED WEBCHECK_AVAILABLE

ComputeLeadScore ==
    /\ call = Idle
    /\ \E row \in Rows :
      \E probe \in ProbeOutcomes(row, prober, WEBCHECK_AVAILABLE) :
        /\ call' = Call("_compute_lead_score", row, <<>>, FetchError, None)
        /\ scored' = _compute_lead_score(row, WEBCHECK_AVAILABLE, probe)
        /\ classified' = NoClass /\ site' = NoSite /\ href_ok' = FALSE
        /\ resolved' = NoResolved /\ card' = NoCard /\ ran' = NoRun
        /\ UNCHANGED <<WEBCHECK_AVAILABLE, prober>>

ClassifyLead ==
    /\ call = Idle
    /\ \E row \in Rows :
      \E probe \in ProbeOutcomes(row, prober, WEBCHECK_AVAILABLE) :
        /\ call' = Call("classify_lead", row, <<>>, FetchError, None)
        /\ scored' = _compute_lead_score(row, WEBCHECK_AVAILABLE, probe)
        /\ classified' = classify_lead(scored')
        /\ site' = NoSite /\ href_ok' = FALSE
        /\ resolved' = NoResolved /\ card' = NoCard /\ ran' = NoRun
        /\ UNCHANGED <<WEBCHECK_AVAILABLE, prober>>

QuickSiteCheck ==
    /\ call = Idle
    /\ \E url \in Urls, fetch \in FetchOutcomes :
        /\ call' = Call("quick_site_check", NoRow, url, fetch, None)
        /\ site' = quick_site_check(url, WEBCHECK_AVAILABLE, fetch)
        /\ scored' = NoScore /\ classified' = NoClass /\ href_ok' = FALSE
        /\ resolved' = NoResolved /\ card' = NoCard /\ ran' = NoRun
        /\ UNCHANGED <<WEBCHECK_AVAILABLE, prober>>

ValidWebsiteHref ==
    /\ call = Idle
    /\ \E href \in Hrefs :
        /\ call' = Call("_valid_website_href", NoRow, <<>>, FetchError, href)
        /\ href_ok' = _valid_website_href(href)
        /\ scored' = NoScore /\ classified' = NoClass /\ site' = NoSite
        /\ resolved' = NoResolved /\ card' = NoCard /\ ran' = NoRun
        /\ UNCHANGED <<WEBCHECK_AVAILABLE, prober>>

ExtractWebsite ==
    /\ call = Idle
    /\ \E href \in RedirectHrefs :
        /\ call' = Call("extract_website_from_google_redirect", NoRow, <<>>, FetchError, href)
        /\ resolved' = extract_website_from_google_redirect(href)
        /\ scored' = NoScore /\ classified' = NoClass /\ site' = NoSite
        /\ href_ok' = FALSE /\ card' = NoCard /\ ran' = NoRun
        /\ UNCHANGED <<WEBCHECK_AVAILABLE, prober>>

\* scrape_google_maps reads one card; it runs in main, outside the tests and
\* their stub
ScrapeCard ==
    /\ call = Idle
    /\ prober = Real
    /\ \E page \in CardPages :
        /\ call' = Call("scrape_google_maps", NoRow, <<>>, FetchError, None)
        /\ card' = scrape_card(page)
        /\ scored' = NoScore /\ classified' = NoClass /\ site' = NoSite
        /\ href_ok' = FALSE /\ resolved' = NoResolved /\ ran' = NoRun
        /\ UNCHANGED <<WEBCHECK_AVAILABLE, prober>>

\* main expands a job of the configuration and builds the search string of
\* each expanded job; it runs outside the tests and their stub
RunJob ==
    /\ call = Idle
    /\ prober = Real
    /\ \E job \in Jobs :
        /\ call' = Call("main", NoRow, <<>>, FetchError, None)
        /\ ran' = Run(job, expand_job(job))
        /\ scored' = NoScore /\ classified' = NoClass /\ site' = NoSite
        /\ href_ok' = FALSE /\ resolved' = NoResolved /\ card' = NoCard
        /\ UNCHANGED <<WEBCHECK_AVAILABLE, prober>>

\* The caller has the result; the next call can be made
Return ==
    /\ call # Idle
    /\ call' = Idle /\ scored' = NoScore /\ classified' = NoClass
    /\ site' = NoSite /\ href_ok' = FALSE
    /\ resolved' = NoResolved /\ card' = NoCard /\ ran' = NoRun
    /\ UNCHANGED <<WEBCHECK_AVAILABLE, prober>>

Next ==
    \/ Monkeypatch
    \/ Unpatch
    \/ ComputeLeadScore
    \/ ClassifyLead
    \/ QuickSiteCheck
    \/ ValidWebsiteHref
    \/ ExtractWebsite
    \/ ScrapeCard
    \/ RunJob
    \/ Return

Spec == Init /\ [][Next]_vars

---------------------------------------------------------------------------
(* The properties *)

ScorerReturned ==
    call.op \in {"_compute_lead_score", "classify_lead"} /\ ~scored.raised

\* The record's name or website holds a brand keyword, read off the record
\* itself: the lowercased name, the lowercased non-empty website.
RowNameHasBrand(row) ==
    \E i \in 1..Len(BRAND_KEYWORDS) :
        In(BRAND_KEYWORDS[i], lower(Or(row.business_name, Str(<<>>)).s))

RowWebsiteHasBrand(row) ==
    \E i \in 1..Len(BRAND_KEYWORDS) :
        In(BRAND_KEYWORDS[i], lower(Or(row.website, Str(<<>>)).s))

RowHasBrand(row) == RowNameHasBrand(row) \/ RowWebsiteHasBrand(row)

\* A number field as the specification reads it: absent or unparseable is 0
NumberOr0(v, unit) == IF ToNumber(v, unit).ok THEN ToNumber(v, unit).n ELSE 0

RowOfflineStrong(row) ==
    /\ ~Truthy(row.has_website)
    /\ NumberOr0(row.rating, 100) >= 420
    /\ NumberOr0(row.reviews, 1) >= 50

DisqualifiedReasons == {REASON_BRAND_NAME, REASON_BRAND_WEBSITE, REASON_OFFLINE}

PriorityLabels == {LABEL_HIGH, LABEL_MEDIUM, LABEL_LOW}

\* The sum the scorer clamped, for the record and the probe of the last call
LastSum ==
    Accumulate(Fields(call.row), WEBCHECK_AVAILABLE,
               SiteResult(FALSE, scored.site_score, NoDetails))

\* C1: whatever the record and whatever the prober gives, a score that
\* _compute_lead_score returns is an integer from 0 to 100.
C1_ScoreInRange ==
    ScorerReturned => scored.score \in 0..100

\* C1 witness: a record whose sum is above 100 (a rating out of range)
\* was scored 100, and the clamp is what did it.
C1_Witness ==
    /\ call.op = "_compute_lead_score"
    /\ scored.reason = REASON_SCORED
    /\ LastSum > 10000
    /\ scored.score = 100

\* C2: a brand keyword in the lowercased name or in the lowercased non-empty
\* website gives score 0 and a reason that contains "DISQUALIFIED - Brand
\* Showroom", whatever the other fields are, also when the offline-strength
\* rule applies to the same record.
C2_BrandDisqualifies ==
    (call.op \in {"_compute_lead_score", "classify_lead"} /\ RowHasBrand(call.row))
        => /\ ~scored.raised
           /\ scored.score = 0
           /\ In(<<"D", "I", "S", "Q", "U", "A", "L", "I", "F", "I", "E", "D", " ", EnDash, " ", "B", "r", "a", "n", "d", " ", "S", "h", "o", "w", "r", "o", "o", "m">>, scored.reason)

\* C2 witness: a brand record to which the offline-strength rule applies too
\* (no website, rating 4.3, 60 reviews) came back as a brand showroom.
C2_Witness ==
    /\ call.op = "_compute_lead_score"
    /\ RowNameHasBrand(call.row)
    /\ RowOfflineStrong(call.row)
    /\ scored.score = 0
    /\ scored.reason = REASON_BRAND_NAME

\* C3: for a record without a brand keyword, _compute_lead_score returns
\* (0, "DISQUALIFIED - Strong Offline Presence") exactly when has_website is
\* false, rating >= 4.2 and reviews >= 50.
C3_OfflineExactly ==
    (call.op \in {"_compute_lead_score", "classify_lead"} /\ ~RowHasBrand(call.row))
        => ((~scored.raised /\ scored.score = 0 /\ scored.reason = REASON_OFFLINE)
              <=> RowOfflineStrong(call.row))

\* C3 witness: the record on the boundary, rating 4.2 with 50 reviews and no
\* website, was disqualified.
C3_Witness ==
    /\ call.op = "_compute_lead_score"
    /\ ~RowHasBrand(call.row)
    /\ ~Truthy(call.row.has_website)
    /\ call.row.rating = Num(420)
    /\ call.row.reviews = Num(50)
    /\ scored.reason = REASON_OFFLINE

\* C4: for a record that is not disqualified, classify_lead returns the
\* scorer's score unchanged and the one priority label that the score alone
\* selects: high from 70, medium from 40 to 69, low below 40.
C4_Thresholds ==
    (/\ call.op = "classify_lead"
     /\ ~scored.raised
     /\ scored.reason \notin DisqualifiedReasons)
        => /\ ~classified.raised
           /\ classified.score = scored.score
           /\ classified.category \in PriorityLabels
           /\ (classified.category = LABEL_HIGH <=> scored.score >= 70)
           /\ (classified.category = LABEL_MEDIUM <=> (40 <= scored.score /\ scored.score < 70))
           /\ (classified.category = LABEL_LOW <=> scored.score < 40)

\* C4 witness: a record scored exactly 70 was classified high priority.
C4_Witness ==
    /\ call.op = "classify_lead"
    /\ scored.reason = REASON_SCORED
    /\ scored.score = 70
    /\ classified.category = LABEL_HIGH

\* The record of test_site_score_integration
SiteScoreTestRow ==
    Row(Str(<<"L", "o", "c", "a", "l", " ", "T", "i", "l", "e", "s">>), Num(400), Num(20), Bool(TRUE), Str(<<"h", "t", "t", "p", "s", ":", "/", "/", "e", "x", "a", "m", "p", "l", "e", ".", "c", "o", "m">>),
        <<None, None>>, <<None, None>>, None)

SumWithoutWebsite(row) ==
    Accumulate([Fields(row) EXCEPT !.has_website = FALSE], FALSE, NoSite)

ZeroOr(v, unit) == IF v.t = "str" /\ ~ToNumber(v, unit).ok THEN Num(0) ELSE v

Zeroed(row) ==
    [row EXCEPT !.rating = ZeroOr(@, 100), !.reviews = ZeroOr(@, 1),
                !.photos = ZeroOr(@, 1), !.photo_count = ZeroOr(@, 1)]

\* C6: _compute_lead_score and classify_lead return for every record, also
\* one whose rating, reviews or photos is an unparseable text, and such a
\* field counts as 0 in every rule, the offline-strength comparison included.
C6_Total ==
    call.op \in {"_compute_lead_score", "classify_lead"}
        => /\ ~scored.raised
           /\ ~classified.raised
           /\ LET z == _compute_lead_score(Zeroed(call.row), WEBCHECK_AVAILABLE,
                                           SiteResult(FALSE, scored.site_score, NoDetails))
              IN  scored.score = z.score /\ scored.reason = z.reason

\* The request of the last quick_site_check failed, or was never made
SiteCheckFailed ==
    \/ ~WEBCHECK_AVAILABLE
    \/ call.url = <<>>
    \/ call.fetch.kind = "error"
    \/ call.fetch.status # 200

\* C7: quick_site_check never raises, and every failure (fetch exception or
\* timeout, a status other than 200, web checks unavailable, empty url) gives
\* score 0, also for an https url whose 4 points were counted already.
C7_FailsSoft ==
    call.op = "quick_site_check"
        => /\ ~site.raised
           /\ (SiteCheckFailed => site.score = 0)

\* C7 witness: an https url answered with a status other than 200, web checks
\* available, gave 0.
C7_Witness ==
    /\ call.op = "quick_site_check"
    /\ WEBCHECK_AVAILABLE
    /\ startswith(call.url, <<"h", "t", "t", "p", "s", ":", "/", "/">>)
    /\ urlparse(call.url).ok
    /\ call.fetch.kind = "response"
    /\ call.fetch.status = 404
    /\ site.score = 0

\* The five signals of the last quick_site_check, each 1 or 0, read off the
\* url and the page
B(p) == IF p THEN 1 ELSE 0

SignalHttps == B(startswith(lower(call.url), <<"h", "t", "t", "p", "s", ":">>))

SignalViewport == B("viewport" \in call.fetch.page.metas)

SignalDescription == B("description" \in call.fetch.page.metas)

SignalContact ==
    B(\E i \in 1..Len(call.fetch.page.anchors) :
        \/ In(<<"m", "a", "i", "l", "t", "o", ":">>, lower(call.fetch.page.anchors[i]))
        \/ In(<<"c", "o", "n", "t", "a", "c", "t">>, lower(call.fetch.page.anchors[i])))

SignalAnalytics ==
    B(\E m \in ANALYTICS_MARKERS : m \in call.fetch.page.fragments)

\* The request was made and answered 200
Answered200 ==
    /\ WEBCHECK_AVAILABLE
    /\ call.url # <<>>
    /\ urlparse(call.url).ok
    /\ call.fetch.kind = "response"
    /\ call.fetch.status = 200

\* C8: the score of quick_site_check is an integer from 0 to 20, and on a 200
\* response it is 4*https + 4*viewport + 3*description + 4*contact +
\* 5*analytics.
C8_SiteScore ==
    call.op = "quick_site_check"
        => /\ site.score \in 0..20
           /\ (Answered200 =>
                 site.score = 4 * SignalHttps + 4 * SignalViewport + 3 * SignalDescription
                              + 4 * SignalContact + 5 * SignalAnalytics)

\* C8 witness: a page with all five signals scored 20.
C8_Witness ==
    /\ call.op = "quick_site_check"
    /\ Answered200
    /\ SignalHttps + SignalViewport + SignalDescription + SignalContact + SignalAnalytics = 5
    /\ site.score = 20

\* C9: a disqualification of the scorer (score 0 and a disqualification
\* reason) is returned by classify_lead with the reason as category and as
\* explanation, score 0 and no priority label; a record that scores 0
\* without a disqualification reason is low priority.
C9_Disqualified ==
    (call.op = "classify_lead" /\ ~scored.raised /\ scored.score = 0)
        => IF scored.reason \in DisqualifiedReasons
           THEN /\ classified.category = scored.reason
                /\ classified.explanation = scored.reason
                /\ classified.score = 0
                /\ classified.category \notin PriorityLabels
           ELSE /\ classified.category = LABEL_LOW
                /\ classified.score = 0
                /\ classified.explanation # scored.reason

\* C9 witness: a record that scored 0 with the reason of a computed score
\* (nothing to add up) was classified low priority.
C9_Witness ==
    /\ call.op = "classify_lead"
    /\ scored.score = 0
    /\ scored.reason = REASON_SCORED
    /\ classified.category = LABEL_LOW

\* What the specification says of a link: non-empty, begins with http:// or
\* https://, no denylisted domain in the host, no static-asset extension at
\* the end of the path; a link that cannot be parsed is not acceptable.
AcceptableLink(href) ==
    /\ href.t = "str"
    /\ href.s # <<>>
    /\ (startswith(href.s, <<"h", "t", "t", "p", ":", "/", "/">>) \/ startswith(href.s, <<"h", "t", "t", "p", "s", ":", "/", "/">>))
    /\ urlparse(href.s).ok
    /\ \A i \in 1..Len(blacklist) : ~In(blacklist[i], lower(urlparse(href.s).netloc))
    /\ \A i \in 1..Len(ASSET_EXTENSIONS) :
          ~endswith(lower(urlparse(href.s).path), ASSET_EXTENSIONS[i])

\* C10: _valid_website_href(href) is true exactly when href is non-empty,
\* begins with http:// or https://, has no denylisted domain in its host and
\* no static-asset extension at the end of its path.
C10_AcceptableExactly ==
    call.op = "_valid_website_href" => (href_ok <=> AcceptableLink(call.href))

\* A link the redirect test of line 49 does not take for the provider's
\* redirect: one urlparse rejects, or one whose host or path differs
NotARedirect(href) ==
    LET parsed == urlparse(href.s)
    IN  ~parsed.ok \/ ~IsGoogleRedirect(parsed)

\* C11: extract_website_from_google_redirect never raises; a link that is not
\* the provider's redirect, or that cannot be parsed, comes back unchanged,
\* and an empty input comes back as it was given (the empty text as the
\* empty text).
C11_NeverRaises ==
    call.op = "extract_website_from_google_redirect" =>
        /\ ~resolved.raised
        /\ (call.href.t = "str" /\ call.href.s # <<>> /\ NotARedirect(call.href))
               => resolved.value = call.href
        /\ ~Truthy(call.href) => resolved.value = call.href

\* The sum of the scoring formula for the fields f of a record, in hundredths
\* of a point: rating/5*20, min(reviews/100*20, 20), 10 for a phone,
\* min(photos/10*10, 10), 10 for a relevant category, and the website term
\* given.  A field that is not a number counts 0.
FormulaSum(f, website_term) ==
    website_term
    + 4 * NumberOr0(f.rating, 100)
    + Min(20 * NumberOr0(f.reviews, 1), 2000)
    + (IF f.phone # <<>> THEN 1000 ELSE 0)
    + Min(100 * NumberOr0(f.photos, 1), 1000)
    + (IF \E i \in 1..Len(CATEGORY_KEYWORDS) : In(CATEGORY_KEYWORDS[i], f.category)
       THEN 1000 ELSE 0)

FormulaScore(h) == RoundPoints(Max(0, Min(10000, h)))

StubScored ==
    ScorerReturned /\ scored.reason = REASON_SCORED /\ prober.t = "stub"

FirstBrandIn(text) ==
    IF \E i \in 1..Len(BRAND_KEYWORDS) : In(BRAND_KEYWORDS[i], text)
    THEN CHOOSE i \in 1..Len(BRAND_KEYWORDS) :
            /\ In(BRAND_KEYWORDS[i], text)
            /\ \A j \in 1..(i - 1) : ~In(BRAND_KEYWORDS[j], text)
    ELSE Len(BRAND_KEYWORDS) + 1

FirstBrandInName(row) == FirstBrandIn(lower(Or(row.business_name, Str(<<>>)).s))

FirstBrandInWebsite(row) == FirstBrandIn(lower(Or(row.website, Str(<<>>)).s))

ScorerCalled == call.op \in {"_compute_lead_score", "classify_lead"}

\* C13: whenever the lowercased name holds a brand keyword the reason is the
\* name-match variant, whatever the website is; the website-match variant is
\* returned only when no brand keyword occurs in the name.
C13_NameMatchFirst ==
    ScorerCalled =>
        /\ RowNameHasBrand(call.row) => scored.reason = REASON_BRAND_NAME
        /\ scored.reason = REASON_BRAND_WEBSITE => ~RowNameHasBrand(call.row)

\* C13, amended: the keywords are tried in the order of the list, each on the
\* name and then on the website.  The reason is the name-match variant when
\* the first keyword found in the name is listed no later than the first one
\* found in the website, and the website-match variant when the website
\* holds a keyword listed before every keyword of the name, also when the
\* name holds a brand keyword.
C13_FirstKeywordDecides ==
    ScorerCalled =>
        LET n == FirstBrandInName(call.row)
            w == FirstBrandInWebsite(call.row)
        IN  /\ (n <= Len(BRAND_KEYWORDS) /\ n <= w) <=> scored.reason = REASON_BRAND_NAME
            /\ w < n <=> scored.reason = REASON_BRAND_WEBSITE

\* C13 witness: a record whose name holds a brand keyword and whose website
\* holds an earlier one came back as a website match.
C13_Witness ==
    /\ ScorerCalled
    /\ RowNameHasBrand(call.row)
    /\ FirstBrandInWebsite(call.row) < FirstBrandInName(call.row)
    /\ scored.score = 0
    /\ scored.reason = REASON_BRAND_WEBSITE

\* A method produced an acceptable URL: it ended with a website that
\* _valid_website_href accepts
Acceptable(found) ==
    ~found.raised /\ Truthy(found.website) /\ _valid_website_href(found.website)

\* C14: the website stored in the record of a card is absent or a URL that
\* _valid_website_href accepts, and a later method is tried whenever the
\* earlier ones produced no acceptable URL, whatever elements are found and
\* whatever their hrefs are.
C14_StoredWebsiteAcceptable ==
    call.op = "scrape_google_maps" =>
        /\ card.website = None \/ _valid_website_href(card.website)
        /\ ~Acceptable(Method1(card.page.authority)) => 2 \in card.tried
        /\ (/\ ~Acceptable(Method1(card.page.authority))
            /\ ~Acceptable(Method2(card.page.buttons))) => 3 \in card.tried

\* The cities and the categories a job lists, under either name
JobCities(job) == Or(job.cities, job.city_list)

JobCategories(job) == Or(job.categories, job.category_list)

\* The city the k-th expanded job stands for: the cities in order, once per
\* category when the job lists categories too
CityOf(job, k) == JobCities(job).s[((k - 1) % Len(JobCities(job).s)) + 1]

\* C15: a job with a cities list (alone or with a categories list) expands to
\* one job per city (per category and city), and the search string run for
\* each expanded job names that job's own city, so that jobs for different
\* cities run different searches, whichever of query, category or search
\* gave the base query.
C15_SearchNamesCity ==
    (call.op = "main" /\ Truthy(JobCities(ran.job))) =>
        LET job == ran.job
            n   == Len(JobCities(job).s)
                   * (IF Truthy(JobCategories(job)) THEN Len(JobCategories(job).s) ELSE 1)
        IN  /\ Len(ran.expanded) = n
            /\ \A k \in 1..Len(ran.searches) : In(CityOf(job, k), ran.searches[k])
            /\ \A k, l \in 1..Len(ran.searches) :
                    CityOf(job, k) # CityOf(job, l) => ran.searches[k] # ran.searches[l]

=============================================================================
